---- MODULE Spec2Model ----
(***************************************************************************)
(* Model of the slide background-and-layout engine of LibraScorp           *)
(* (src/bot/services/presentation_builder.py).                             *)
(*                                                                         *)
(* Relative rectangles (left, top, width, height) are kept in hundredths   *)
(* of the slide: 0.08 is 8.  Every coordinate the source writes has at most *)
(* two decimals, and the one float comparison between them (line 323) has  *)
(* the same outcome in binary floating point as in exact arithmetic for    *)
(* every title/body candidate pair.                                        *)
(***************************************************************************)
EXTENDS Integers, Sequences, FiniteSets, TLC

VARIABLES
    \* ---- zone detector (one call of _detect_text_zones_from_background)
    titleScore,     \* score of each title candidate for the opened raster
    bodyScore,      \* score of each body candidate for the opened raster
    detected,       \* the returned pair, or NoResult before the call
    decodeFailed,   \* whether that call took the except branch
    \* ---- crop-to-fill (one image placement)
    imgSize,        \* <<width, height>> of the source image
    boxSize,        \* <<width, height>> of the target rectangle (EMU)
    picture,        \* the placed picture's crops, or NoResult
    \* ---- image pairing (one call of _select_slide_image_pair)
    selPool,        \* the call's prepared_user_images
    selIndex,       \* the call's slide_index
    selected,       \* the returned pair, or NoResult
    \* ---- font-size estimators (one call on each of two contents)
    fontCase,       \* which estimator: "body", "title", or "none"
    bullets,        \* slide.bullets of the first content: the bullets' lengths
    moreBullets,    \* slide.bullets of the second content
    titleText,      \* the first title: <<leading blanks, core, trailing blanks>>
    longerTitleText,\* the second title
    font_sizes,     \* the two sizes returned, or NoResult
    \* ---- the registry and the disk
    deckPages,      \* page count of each deck asset of the registry
    corrupt,        \* the image assets whose file cannot be decoded
    listing,        \* the order in which the assets directory lists its entries
    files,          \* the temporary raster files that exist on disk
    \* ---- _build_presentation_sync, one entry per build (call)
    pc,             \* position of the call: idle, loop, credits, save, done, failed
    error,          \* the exception that ended the call, or None
    inputs,         \* the call's arguments
    prepared_user_images,
    index,          \* the loop's index (0-based, as in the source)
    presentation,   \* presentation.slides: one record per slide whose iteration
                    \* completed (an iteration that raises takes the object with it)
    slide,          \* the layout of the slide added last
    temp_images,
    pdf_pages_cache,
    zones_cache,
    output_path,    \* the saved file, or None
    inserted,       \* history: the cache keys each build has inserted
    calls,          \* history: the rasterizer and detector calls of each build
    \* ---- RateLimitMiddleware (one instance, registered on messages)
    now,            \* time.monotonic(), in seconds
    window_sec,
    max_messages,
    _hits,          \* per user, the times of the events let through
    _last_notice_at,
    seen,           \* history: per user, the events that _is_allowed judged
    last,           \* history: the event handled last
    \* ---- _finalize_presentation_generation, one invocation
    fin_pc,         \* position of the invocation
    fin_args,       \* the message, the language and the settings it runs with
    state_data,     \* the conversation state (FSMContext)
    dirs,           \* the temporary directories that exist on disk
    file_path,      \* the output file once built, or None
    fin_raised,     \* whether an exception is on its way out of the try block
    \* ---- process_slide_images, two uploads of one conversation
    up_pc,          \* position of each upload's handler
    file_suffix,    \* each upload's file type
    stored_paths,   \* each handler's local list
    destination,    \* each handler's local path
    slide_count,    \* the conversation's state data
    slide_image_paths,
    slide_images_temp_dir,
    image_files,    \* the image files on disk and whose upload each holds
    acked,          \* history: the uploads answered as saved, with their paths
    finalized,      \* whether _finalize_presentation_generation was entered
    \* ---- _expand_combo and the selection of a combo
    combo_pc,       \* drawn, returned (the function), selected or refused (the callback)
    sequence,       \* the combo's template ids
    combo_count,    \* slide_count of the conversation
    expanded_types  \* the list returned, stored in the state by the callback

zoneVars == <<titleScore, bodyScore, detected, decodeFailed>>
cropVars == <<imgSize, boxSize, picture>>
pairVars == <<selPool, selIndex, selected>>
fontVars == <<fontCase, bullets, moreBullets, titleText, longerTitleText, font_sizes>>
registryVars == <<deckPages, corrupt, listing>>
worldVars == <<registryVars, files>>
buildVars == <<pc, error, inputs, prepared_user_images, index, presentation, slide,
               temp_images, pdf_pages_cache, zones_cache, output_path, inserted, calls>>
rateVars == <<now, window_sec, max_messages, _hits, _last_notice_at, seen, last>>
\* the slide engine, and the bot's handlers around it
engineVars == <<zoneVars, cropVars, pairVars, fontVars, worldVars, buildVars>>
finVars == <<fin_pc, fin_args, state_data, dirs, file_path, fin_raised>>
upVars == <<up_pc, file_suffix, stored_paths, destination, slide_count,
            slide_image_paths, slide_images_temp_dir, image_files, acked, finalized>>
comboVars == <<combo_pc, sequence, combo_count, expanded_types>>
handlerVars == <<rateVars, finVars, upVars, comboVars>>
vars == <<engineVars, handlerVars>>
\* what the steps of one part of the model leave alone
notZone == <<cropVars, pairVars, fontVars, worldVars, buildVars, handlerVars>>
notCrop == <<zoneVars, pairVars, fontVars, worldVars, buildVars, handlerVars>>
notPair == <<zoneVars, cropVars, fontVars, worldVars, buildVars, handlerVars>>
notFont == <<zoneVars, cropVars, pairVars, worldVars, buildVars, handlerVars>>
notBuild == <<zoneVars, cropVars, pairVars, fontVars, handlerVars>>
notRate == <<engineVars, finVars, upVars, comboVars>>
notFin == <<engineVars, rateVars, upVars, comboVars>>
notUp == <<engineVars, rateVars, finVars, comboVars>>
notCombo == <<engineVars, rateVars, finVars, upVars>>

NoResult == <<>>
None == "None"

\* ------------------------------------------------------------------ bounds
\* Scores are drawn from 0..MaxScore (the order of the scores is all the
\* detector reads; the lowest value also stands for float("-inf")).
MaxScore == 1
\* Image and rectangle sides are drawn from 1..MaxDim.
MaxDim == 8
\* One call of the image pairing: pools of at most MaxPoolSize images (out
\* of as many distinct ones), slide indices 0..MaxIndex.
MaxPoolSize == 3
MaxIndex == 4
\* A build gets at most MaxSlides slides, MaxTemplates template ids and
\* MaxPool user images; a deck has at most MaxPages pages.
MaxSlides == 3
MaxTemplates == 2
MaxPool == 2
MaxPages == 3
\* A slide content has at most MaxBullets bullets.
MaxBullets == 5
\* creator_names holds at most MaxNames names.
MaxNames == 21
\* the rate limiter: the clock's last second, the largest configured window
\* and allowance, and the events of the limited users that a behaviour holds
MaxTime == 3
MaxWindow == 2
MaxAllowance == 3
MaxEvents == 4
\* the largest slide count of a conversation that uploads images
MaxSlideCount == 2
\* the longest combo and the largest slide count it is expanded to
MaxComboLen == 3
MaxCount == 4

\* ------------------------------------------------------- module constants
TITLE_ZONE == <<8, 8, 84, 16>>
\* (variant: a first-slide title box as tall as the general one)
FirstSlideTitleZoneTall == <<8, 3, 84, 16>>

FIRST_SLIDE_TITLE_ZONE == <<8, 3, 84, 12>>
BODY_ZONE == <<10, 26, 80, 58>>
BODY_ZONE_NO_TITLE == <<8, 10, 84, 78>>
TITLE_ZONE_CANDIDATES ==
    << <<7, 6, 86, 18>>,
       <<8, 8, 84, 16>>,
       <<10, 9, 80, 16>>,
       <<12, 10, 76, 16>>,
       <<10, 14, 80, 16>> >>
BODY_ZONE_CANDIDATES ==
    << <<8, 24, 84, 60>>,
       <<10, 26, 80, 58>>,
       <<10, 30, 80, 54>>,
       <<12, 28, 76, 56>>,
       <<12, 34, 76, 50>>,
       <<8, 32, 84, 52>> >>
\* 0.01, the slack of the body filter, in hundredths
ZONE_EPS == 1
\* 0.49, the largest crop, in hundredths
CROP_CAP == 49

Left(z) == z[1]
Top(z) == z[2]
Width(z) == z[3]
Height(z) == z[4]

\* ----------------------------------------------------------- zone detector
Scores == 0..MaxScore

\* Python's max(seq, key=...): the first element whose key is maximal.
\* idx is the sequence of candidate indices considered, key their scores.
\* (variant: the first element, whatever its key)
PyFirstIndex(idx, key) == idx[1]

PyMaxIndex(idx, key) ==
    LET best == CHOOSE i \in 1..Len(idx) :
                    /\ \A j \in 1..Len(idx) : key[idx[j]] <= key[idx[i]]
                    /\ \A j \in 1..(i - 1) : key[idx[j]] < key[idx[i]]
    IN  idx[best]

AllIndices(seq) == [i \in 1..Len(seq) |-> i]

\* line 323: the body candidates starting at or after the title's bottom
\* edge less the slack, in candidate order
\* (variant: no candidate is dropped)
BodyFilterDropsNothing(best_title) ==
    AllIndices(BODY_ZONE_CANDIDATES)

BodyFilter(best_title) ==
    SelectSeq(AllIndices(BODY_ZONE_CANDIDATES),
              LAMBDA i : Top(BODY_ZONE_CANDIDATES[i])
                            >= Top(best_title) + Height(best_title) - ZONE_EPS)

\* lines 322-327, the try branch
DetectFromScores(ts, bs) ==
    LET best_title == TITLE_ZONE_CANDIDATES[
                          PyMaxIndex(AllIndices(TITLE_ZONE_CANDIDATES), ts)]
        restricted == BodyFilter(best_title)
        body_candidates == IF restricted = <<>>
                           THEN AllIndices(BODY_ZONE_CANDIDATES)
                           ELSE restricted
        best_body == BODY_ZONE_CANDIDATES[PyMaxIndex(body_candidates, bs)]
    IN  <<best_title, best_body>>

\* lines 328-329, the except branch
\* (variant: a default body box that reaches below the slide)
DetectDefaultOversized == <<TITLE_ZONE, <<10, 46, 80, 58>> >>

DetectDefault == <<TITLE_ZONE, BODY_ZONE>>

\* _detect_text_zones_from_background: opened tells whether Image.open and
\* the scoring went through without an exception
\* (variant: the except branch returns the first candidates)
DetectFirstCandidatesOnFailure(opened, ts, bs) ==
    IF opened THEN DetectFromScores(ts, bs)
    ELSE <<TITLE_ZONE_CANDIDATES[1], BODY_ZONE_CANDIDATES[1]>>

_detect_text_zones_from_background(opened, ts, bs) ==
    IF opened THEN DetectFromScores(ts, bs) ELSE DetectDefault

ZoneIdle ==
    /\ titleScore = NoResult
    /\ bodyScore = NoResult
    /\ detected = NoResult
    /\ decodeFailed = FALSE

ZoneInit ==
    /\ titleScore \in [1..Len(TITLE_ZONE_CANDIDATES) -> Scores]
    /\ bodyScore \in [1..Len(BODY_ZONE_CANDIDATES) -> Scores]
    /\ detected = NoResult
    /\ decodeFailed = FALSE

\* one call of the detector on a raster with the drawn scores
Detect ==
    /\ detected = NoResult
    /\ \E opened \in BOOLEAN :
          /\ detected' = _detect_text_zones_from_background(opened, titleScore, bodyScore)
          /\ decodeFailed' = ~opened
    /\ UNCHANGED <<titleScore, bodyScore, notZone>>

\* ------------------------------------------------------------ crop-to-fill
\* A crop fraction is kept exact, as numerator and denominator.
ZeroCrop == [left |-> <<0, 1>>, right |-> <<0, 1>>, top |-> <<0, 1>>, bottom |-> <<0, 1>>]

\* max(0.0, min(0.49, (1.0 - visible) / 2.0)) with visible = vn / vd,
\* 0 < vn < vd : (1 - vn/vd) / 2 = (vd - vn) / (2 vd)
\* (variant: without the cap and the floor)
CropEachUncapped(vn, vd) == <<vd - vn, 2 * vd>>

CropEach(vn, vd) ==
    LET n == vd - vn
        d == 2 * vd
    IN  IF n <= 0 THEN <<0, 1>>
        ELSE IF 100 * n > CROP_CAP * d THEN <<CROP_CAP, 100>>
        ELSE <<n, d>>

\* lines 254-265 (_add_user_image) and 137-149 (_add_background_image_cover):
\* image_ratio = iw / ih, zone_ratio = zw / zh
CropToFill(iw, ih, zw, zh) ==
    IF iw * zh > zw * ih
    THEN \* image wider than the box: visible = zone_ratio / image_ratio
         LET c == CropEach(zw * ih, zh * iw)
         IN  [ZeroCrop EXCEPT !.left = c, !.right = c]
    ELSE IF iw * zh < zw * ih
    THEN \* image taller than the box: visible = image_ratio / zone_ratio
         LET c == CropEach(iw * zh, ih * zw)
         IN  [ZeroCrop EXCEPT !.top = c, !.bottom = c]
    ELSE ZeroCrop

Dims == 1..MaxDim

CropIdle ==
    /\ imgSize = NoResult
    /\ boxSize = NoResult
    /\ picture = NoResult

CropInit ==
    /\ imgSize \in Dims \X Dims
    /\ boxSize \in Dims \X Dims
    /\ picture = NoResult

\* _add_user_image once the image is opened (lines 247-265)
AddUserImage ==
    /\ picture = NoResult
    /\ picture' = [kind |-> "user",
                   crop |-> CropToFill(imgSize[1], imgSize[2], boxSize[1], boxSize[2])]
    /\ UNCHANGED <<imgSize, boxSize, notCrop>>

\* _add_background_image_cover once the image is opened (lines 134-149)
AddBackgroundImageCover ==
    /\ picture = NoResult
    /\ picture' = [kind |-> "background",
                   crop |-> CropToFill(imgSize[1], imgSize[2], boxSize[1], boxSize[2])]
    /\ UNCHANGED <<imgSize, boxSize, notCrop>>

\* ------------------------------------------------- the registry, the disk
\* The assets directory of the modelled world: template 1 has a deck asset
\* and an image asset, template 2 an image asset only, template 7 none;
\* template 3 has two image assets (3.png and 3.jpg).
\* TemplateIds are the ids the builds of Spec are asked for.
TemplateIds == {1, 2, 7}
PdfAssets == {1}
ImageAssets == {1, 2, 3}
TwoFileAssets == {3}
BuildIds == {1, 2}

\* Paths are records of one shape, so that any two can be compared.
PathOf(kind, owner, id, page) == [kind |-> kind, owner |-> owner, id |-> id, page |-> page]
NoPath == PathOf("none", 0, 0, 0)
DeckPath(t) == PathOf("deck", 0, t, 0)
ImagePath(t) == PathOf("image", 0, t, 0)
UserImage(k) == PathOf("user", 0, k, 0)
\* tempfile.mkstemp(prefix="pdf_template_"): a fresh name for each page a
\* build renders
TmpFile(b, deck, page) == PathOf("tmp", b, deck, page)

\* BackgroundResolver, deck part (spec section 4.1): the deck asset whose
\* leading number is the template id, if there is one
resolve_pdf_template_asset(template_type) ==
    IF template_type \in PdfAssets THEN DeckPath(template_type) ELSE NoPath

\* the .png/.jpg/.jpeg files of the assets directory whose leading number is
\* the template id, in name order
ImageFiles(template_type) ==
    IF template_type \in TwoFileAssets
    THEN <<PathOf("image", 0, template_type, 0), PathOf("image", 0, template_type, 1)>>
    ELSE <<ImagePath(template_type)>>

\* ASSETS_DIR.iterdir() yields the entries in an order the file system
\* chooses: in name order or in the reverse of it
Listings == {"forward", "reverse"}

\* the first file that the listing yields whose leading number is the
\* template id
resolve_template_asset(template_type) ==
    IF template_type \in ImageAssets
    THEN LET found == ImageFiles(template_type)
         IN  IF listing = "forward" THEN found[1] ELSE found[Len(found)]
    ELSE NoPath

\* Path.exists(): assets exist, a temporary raster exists until unlinked, a
\* user image exists unless its id is 0 (an upload that is gone)
\* (disk: the temporary rasters on disk at the time of the call)
ExistsOn(disk, path) ==
    \/ path.kind \in {"deck", "image"}
    \/ path.kind = "tmp" /\ path \in disk
    \/ path.kind = "user" /\ path.id > 0

Exists(path) == ExistsOn(files, path)

\* Image.open on a background raster: a page the build has just rendered
\* opens; an image asset of the registry opens unless its file is corrupt
CorruptibleAssets == {2}
Opens(path) == IF path.kind = "image" THEN {path.id \notin corrupt} ELSE {TRUE}

\* Image.open inside _add_user_image (lines 238-242): the user images with an
\* even id are files that cannot be decoded; a background that line 119 has
\* already placed as a picture opens
OpensForPlacement(image_path) ==
    image_path.kind = "user" => image_path.id % 2 = 1

\* --------------------------------------------------------- the rasterizer
\* lines 404-405: the page indices kept, in order
\* (variant: page 0 is never skipped)
RetainedPagesNoSkip(page_count) ==
    [j \in 1..page_count |-> j - 1]

RetainedPages(page_count) ==
    LET start_page == IF page_count > 1 THEN 1 ELSE 0
    IN  [j \in 1..(page_count - start_page) |-> start_page + j - 1]

\* _render_pdf_pages_to_png when nothing raises: one file per kept page
RenderedFiles(b, deck) ==
    LET kept == RetainedPages(deckPages[deck])
    IN  [j \in 1..Len(kept) |-> TmpFile(b, deck, kept[j])]

Range(seq) == {seq[j] : j \in 1..Len(seq)}

\* ----------------------------------------------------- the image planner
\* _select_slide_image_pair (lines 172-183)
\* (variant: the second index stays on the last image instead of wrapping)
SelectPairNoWrap(pool, slide_index) ==
    IF pool = <<>> THEN <<NoPath, NoPath>>
    ELSE IF Len(pool) = 1 THEN <<pool[1], pool[1]>>
    ELSE LET first_idx == (slide_index * 2) % Len(pool)
             second_idx == IF first_idx + 1 < Len(pool) THEN first_idx + 1 ELSE first_idx
         IN  <<pool[first_idx + 1], pool[second_idx + 1]>>

_select_slide_image_pair(pool, slide_index) ==
    IF pool = <<>> THEN <<NoPath, NoPath>>
    ELSE IF Len(pool) = 1 THEN <<pool[1], pool[1]>>
    ELSE LET first_idx == (slide_index * 2) % Len(pool)
             second_idx == (first_idx + 1) % Len(pool)
         IN  <<pool[first_idx + 1], pool[second_idx + 1]>>

Layouts == {"left", "right", "top", "bottom"}

\* _pick_image_layout (lines 152-169): rng.choice over a tuple in which
\* each of the four layouts occurs, whatever the image
_pick_image_layout(image_path) == Layouts

NoZone == <<>>

\* _adjust_zones_for_dual_images (lines 186-226): text, large, small
_adjust_zones_for_dual_images(has_title, preferred_large_layout) ==
    IF preferred_large_layout = "top"
    THEN << <<8, IF has_title THEN 50 ELSE 44, 84, IF has_title THEN 42 ELSE 48>>,
            <<6, IF has_title THEN 10 ELSE 6, 88, IF has_title THEN 30 ELSE 34>>,
            <<68, IF has_title THEN 38 ELSE 34, 24, 16>> >>
    ELSE IF preferred_large_layout = "bottom"
    THEN << <<8, IF has_title THEN 14 ELSE 10, 84, IF has_title THEN 44 ELSE 48>>,
            <<6, 62, 88, 30>>,
            <<8, 48, 22, 14>> >>
    ELSE LET text_top == IF has_title THEN 24 ELSE 10
             text_height == IF has_title THEN 64 ELSE 78
             large_top == IF has_title THEN 18 ELSE 8
             large_height == IF has_title THEN 70 ELSE 82
         IN  IF preferred_large_layout = "left"
             THEN << <<53, text_top, 40, text_height>>,
                     <<5, large_top, 45, large_height>>,
                     <<34, IF has_title THEN 62 ELSE 66, 16, 22>> >>
             ELSE << <<7, text_top, 40, text_height>>,
                     <<50, large_top, 45, large_height>>,
                     <<50, IF has_title THEN 62 ELSE 66, 16, 22>> >>

PairIdle ==
    /\ selPool = <<>>
    /\ selIndex = 0
    /\ selected = NoResult

PairInit ==
    /\ selPool \in UNION {[1..n -> {UserImage(k) : k \in 1..MaxPoolSize}] : n \in 0..MaxPoolSize}
    /\ selIndex \in 0..MaxIndex
    /\ selected = NoResult

\* one call of _select_slide_image_pair
SelectPair ==
    /\ selected = NoResult
    /\ selected' = _select_slide_image_pair(selPool, selIndex)
    /\ UNCHANGED <<selPool, selIndex, notPair>>

\* ------------------------------------------------- font-size estimators
SeqsUpTo(S, n) == UNION {[1..k -> S] : k \in 0..n}

RECURSIVE SeqMax(_)
SeqMax(seq) ==
    IF seq = <<>> THEN 0
    ELSE LET rest == SeqMax(Tail(seq))
         IN  IF Head(seq) > rest THEN Head(seq) ELSE rest

RECURSIVE SeqSum(_)
SeqSum(seq) == IF seq = <<>> THEN 0 ELSE Head(seq) + SeqSum(Tail(seq))

\* _estimate_body_font_size (lines 85-93); slide_bullets holds len(item)
\* for each item of slide.bullets
\* (variant: the two reduced sizes the other way round)
EstimateBodySizesSwapped(slide_bullets) ==
    LET max_len == SeqMax(slide_bullets)
        total_len == SeqSum(slide_bullets)
        bullet_count == Len(slide_bullets)
    IN  IF bullet_count >= 5 \/ max_len > 210 \/ total_len > 680 THEN 18
        ELSE IF bullet_count >= 4 \/ max_len > 170 \/ total_len > 520 THEN 16
        ELSE 19

_estimate_body_font_size(slide_bullets) ==
    LET max_len == SeqMax(slide_bullets)
        total_len == SeqSum(slide_bullets)
        bullet_count == Len(slide_bullets)
    IN  IF bullet_count >= 5 \/ max_len > 210 \/ total_len > 680 THEN 16
        ELSE IF bullet_count >= 4 \/ max_len > 170 \/ total_len > 520 THEN 18
        ELSE 19

\* len(title.strip()) (line 97): a title is its leading blanks, its core
\* (which neither starts nor ends with a blank) and its trailing blanks;
\* strip() leaves the core
StrippedLen(title) == title[2]

\* _estimate_title_font_size (lines 96-104)
_estimate_title_font_size(title) ==
    LET length == StrippedLen(title)
    IN  IF length > 90 THEN 24
        ELSE IF length > 70 THEN 26
        ELSE IF length > 52 THEN 30
        ELSE 33

\* The bullet lengths and title lengths drawn sit on both sides of every
\* threshold of the two estimators.  The bullets of a content are listed
\* shortest first (len, max and sum do not read the order).
BulletLens == {1, 170, 171, 211}
BulletLists ==
    {seq \in SeqsUpTo(BulletLens, MaxBullets) :
        \A j \in 1..(Len(seq) - 1) : seq[j] <= seq[j + 1]}
TitleLens == {0, 52, 53, 70, 71, 90, 91}
TitleTexts == {0, 40} \X TitleLens \X {0, 40}
NoTitle == <<0, 0, 0>>

FontIdle ==
    /\ fontCase = "none"
    /\ bullets = <<>>
    /\ moreBullets = <<>>
    /\ titleText = NoTitle
    /\ longerTitleText = NoTitle
    /\ font_sizes = NoResult

FontInit ==
    /\ font_sizes = NoResult
    /\ \/ /\ fontCase = "body"
          /\ bullets \in BulletLists
          /\ moreBullets \in BulletLists
          /\ titleText = NoTitle
          /\ longerTitleText = NoTitle
       \/ /\ fontCase = "title"
          /\ bullets = <<>>
          /\ moreBullets = <<>>
          /\ titleText \in TitleTexts
          /\ longerTitleText \in TitleTexts

\* the body estimator applied to both contents
EstimateBody ==
    /\ fontCase = "body"
    /\ font_sizes = NoResult
    /\ font_sizes' = <<_estimate_body_font_size(bullets),
                       _estimate_body_font_size(moreBullets)>>
    /\ UNCHANGED <<fontCase, bullets, moreBullets, titleText, longerTitleText, notFont>>

\* the title estimator applied to both titles
EstimateTitle ==
    /\ fontCase = "title"
    /\ font_sizes = NoResult
    /\ font_sizes' = <<_estimate_title_font_size(titleText),
                       _estimate_title_font_size(longerTitleText)>>
    /\ UNCHANGED <<fontCase, bullets, moreBullets, titleText, longerTitleText, notFont>>

\* --------------------------------------------------- the build's arguments
\* A string is a sequence of characters.
HexDigits == {"0", "1", "2", "3", "4", "5", "6", "7", "8", "9",
              "A", "B", "C", "D", "E", "F", "a", "b", "c", "d", "e", "f"}

RECURSIVE LStrip(_, _)
LStrip(str, chars) ==
    IF str # <<>> /\ str[1] \in chars THEN LStrip(Tail(str), chars) ELSE str

RECURSIVE RStrip(_, _)
RStrip(str, chars) ==
    IF str # <<>> /\ str[Len(str)] \in chars
    THEN RStrip(SubSeq(str, 1, Len(str) - 1), chars)
    ELSE str

\* int(text, 16) on the two characters c1 c2 (lines 77): Python's int skips
\* blanks around the number and takes a sign before it, so it raises
\* ValueError unless the two characters are two hex digits, a blank or a "+"
\* and a hex digit, or a hex digit and a blank.  (The characters of the
\* model are the hex digits, "#", " ", "+" and "G".)
IntBase16Raises(c1, c2) ==
    ~ \/ c1 \in HexDigits /\ c2 \in HexDigits
      \/ c1 \in {" ", "+"} /\ c2 \in HexDigits
      \/ c1 \in HexDigits /\ c2 = " "

\* _parse_hex_color (lines 73-77): the exception it raises, or None.
\* str.lstrip("#") removes every leading "#".
ParseHexColorError(color_hex) ==
    LET value == LStrip(RStrip(LStrip(color_hex, {" "}), {" "}), {"#"})
    IN  IF Len(value) # 6 THEN "ValueError"
        ELSE IF \E j \in {1, 3, 5} : IntBase16Raises(value[j], value[j + 1])
        THEN "ValueError"
        ELSE None

Colors == { <<"#", "1", "A", "2", "b", "3", "C">>, <<"#", "F", "F", "F">> }

\* slide contents are told apart by a number; slide lists of distinct items
SlideLists == {[j \in 1..n |-> 10 * (n + 1 - j)] : n \in 0..MaxSlides}

\* creator_names split at the commas: each part a name (> 0) or blank (0);
\* <<>> is None or the empty string
CreatorChoices == {<<>>, <<1, 0, 2>>}

\* user_image_paths: the first k uploads, or a missing upload followed by
\* one that cannot be decoded
PoolChoices ==
    {[j \in 1..k |-> UserImage(j)] : k \in 0..MaxPool}
        \cup {<<UserImage(0), UserImage(2)>>}

BuildInputs ==
    [template_types : SeqsUpTo(TemplateIds, MaxTemplates),
     slides : SlideLists,
     font_color : Colors,
     creator_names : CreatorChoices,
     user_image_paths : PoolChoices]

NoInputs ==
    [template_types |-> <<>>, slides |-> <<>>, font_color |-> <<>>,
     creator_names |-> <<>>, user_image_paths |-> <<>>]

\* zones is the pair of lines 474-482, title_zone and body_zone the
\* rectangles of the two text boxes (NoZone: no box), pictures the pictures
\* _add_user_image has added
NoSlide ==
    [has_title |-> FALSE, zones |-> <<NoZone, NoZone>>,
     title_zone |-> NoZone, body_zone |-> NoZone,
     first_image |-> NoPath, second_image |-> NoPath, layout |-> None,
     large_image_zone |-> NoZone, small_image_zone |-> NoZone,
     pictures |-> <<>>]

EmptyDict == [k \in {} |-> <<>>]
DictPut(dict, key, value) == [k \in DOMAIN dict \cup {key} |-> IF k = key THEN value ELSE dict[k]]

\* ------------------------------------------------- the rate limiter
\* The users that write to the bot; user 1 is the administrator. An event
\* may carry no user at all (from_user is None).
UserIds == 1..3
ADMIN_ID == 1
NoUser == 0

\* line 26: the hit is older than the window
\* (variant: a hit exactly window_sec old counts as expired too)
ExpiredInclusive(hit, border) == hit <= border

Expired(hit, border) == hit < border

\* lines 26-27: hits are popped from the left while they are expired
RECURSIVE Prune(_, _)
Prune(queue, border) ==
    IF queue # <<>> /\ Expired(queue[1], border)
    THEN Prune(Tail(queue), border)
    ELSE queue

\* _is_allowed (lines 22-31) at time at: <<the result, the queue left>>
\* (variant: the hit is recorded before the allowance is tested)
IsAllowedCountingRejections(queue, at) ==
    LET kept == Prune(queue, at - window_sec)
    IN  <<Len(kept) < max_messages, Append(kept, at)>>

_is_allowed(queue, at) ==
    LET kept == Prune(queue, at - window_sec)
    IN  IF Len(kept) >= max_messages
        THEN <<FALSE, kept>>
        ELSE <<TRUE, Append(kept, at)>>

\* line 52: seconds between two throttle notices to one user
NOTICE_GAP == 2

NoEvent == [user |-> NoUser, at |-> 0, allowed |-> TRUE, before |-> <<>>]

RateIdle ==
    /\ now = 0
    /\ window_sec = 0
    /\ max_messages = 0
    /\ _hits = [u \in UserIds |-> <<>>]
    /\ _last_notice_at = [u \in UserIds |-> 0]
    /\ seen = [u \in UserIds |-> <<>>]
    /\ last = NoEvent

Max(a, b) == IF a > b THEN a ELSE b

\* __init__ (lines 15-20) on the configured values
RateInit ==
    /\ now = 0
    /\ \E configured \in 0..MaxWindow : window_sec = Max(1, configured)
    /\ \E configured \in 0..MaxAllowance : max_messages = Max(2, configured)
    /\ _hits = [u \in UserIds |-> <<>>]
    /\ _last_notice_at = [u \in UserIds |-> 0]
    /\ seen = [u \in UserIds |-> <<>>]
    /\ last = NoEvent

\* the clock advances between two events
Tick ==
    /\ now < MaxTime
    /\ now' = now + 1
    /\ UNCHANGED <<window_sec, max_messages, _hits, _last_notice_at, seen, last, notRate>>

\* __call__ (lines 39-48) on an event that goes to the handler without being
\* counted: it carries no user, or the administrator's
PassThrough(u) ==
    /\ u = NoUser \/ (ADMIN_ID # 0 /\ u = ADMIN_ID)
    /\ last' = [user |-> u, at |-> now, allowed |-> TRUE, before |-> <<>>]
    /\ UNCHANGED <<now, window_sec, max_messages, _hits, _last_notice_at, seen, notRate>>

\* history: the number of events that _is_allowed has judged
EventCount == SeqSum([u \in UserIds |-> Len(seen[u])])

\* __call__ (lines 39-63) on an event of any other user: _is_allowed decides;
\* a rejected event is answered with a notice at most every NOTICE_GAP
\* seconds, and _last_notice_at is set once the notice is sent
Limited(u) ==
    /\ u \in UserIds
    /\ ~(ADMIN_ID # 0 /\ u = ADMIN_ID)
    /\ EventCount < MaxEvents
    /\ \E verdict \in {_is_allowed(_hits[u], now)} :
          /\ _hits' = [_hits EXCEPT ![u] = verdict[2]]
          /\ seen' = [seen EXCEPT ![u] = Append(@, [at |-> now, allowed |-> verdict[1]])]
          /\ last' = [user |-> u, at |-> now, allowed |-> verdict[1], before |-> _hits[u]]
          /\ IF ~verdict[1] /\ now - _last_notice_at[u] >= NOTICE_GAP
             THEN \E sent \in BOOLEAN :
                     _last_notice_at' = IF sent THEN [_last_notice_at EXCEPT ![u] = now]
                                        ELSE _last_notice_at
             ELSE UNCHANGED _last_notice_at
    /\ UNCHANGED <<now, window_sec, max_messages, notRate>>

RateNext ==
    \/ Tick
    \/ \E u \in UserIds \cup {NoUser} : PassThrough(u)
    \/ \E u \in UserIds : Limited(u)

\* --------------------------------------- _finalize_presentation_generation
\* The directories of the modelled disk: the one the uploads and the fetched
\* images are kept in, and the one build_presentation_file writes into.
SlideImagesDir == "tg_slide_images"
OutputDir == "tg_presentation"

\* the state once state.clear() has run
ClearedState == [cleared |-> TRUE, slide_images_temp_dir |-> None]

\* _cleanup_slide_image_temp_dir (lines 483-487): what is left on disk
\* (rmtree is taken to succeed)
CleanedUp(on_disk) ==
    IF state_data.slide_images_temp_dir # None
    THEN on_disk \ {state_data.slide_images_temp_dir}
    ELSE on_disk

\* The invocations: with or without from_user, with complete or incomplete
\* flow data, in Russian or Uzbek, with or without images to fetch (the
\* setting is on and the uploads are fewer than the slides need).
FinArgs ==
    [from_user : BOOLEAN, complete : BOOLEAN, lang : {"ru", "uz"}, fetch : BOOLEAN]

FinIdle ==
    /\ fin_pc = "idle"
    /\ fin_args = [from_user |-> FALSE, complete |-> FALSE, lang |-> "ru", fetch |-> FALSE]
    /\ state_data = ClearedState
    /\ dirs = {}
    /\ file_path = None
    /\ fin_raised = FALSE

\* the function is entered in a conversation that may have stored uploads
FinInit ==
    /\ fin_pc = "called"
    /\ fin_args \in FinArgs
    /\ \E uploaded \in BOOLEAN :
          /\ state_data = [cleared |-> FALSE,
                           slide_images_temp_dir |->
                              IF uploaded THEN SlideImagesDir ELSE None]
          /\ dirs = IF uploaded THEN {SlideImagesDir} ELSE {}
    /\ file_path = None
    /\ fin_raised = FALSE

\* lines 499-502: the message has no user
FinNoUser ==
    /\ fin_pc = "called"
    /\ ~fin_args.from_user
    /\ dirs' = CleanedUp(dirs)
    /\ state_data' = ClearedState
    /\ fin_pc' = "returned"
    /\ UNCHANGED <<fin_args, file_path, fin_raised, notFin>>

\* lines 504-514: a required key is missing; the answer is sent, or
\* message.answer raises, after the state is cleared
FinIncomplete ==
    /\ fin_pc = "called"
    /\ fin_args.from_user /\ ~fin_args.complete
    /\ dirs' = CleanedUp(dirs)
    /\ state_data' = ClearedState
    /\ \E sent \in BOOLEAN : fin_pc' = IF sent THEN "returned" ELSE "raised"
    /\ UNCHANGED <<fin_args, file_path, fin_raised, notFin>>

\* lines 516-541: the data is read; for Uzbek the topic is translated
\* (translate_topic_to_russian returns the topic itself when it fails)
FinRead ==
    /\ fin_pc = "called"
    /\ fin_args.from_user /\ fin_args.complete
    /\ fin_pc' = "images"
    /\ UNCHANGED <<fin_args, state_data, dirs, file_path, fin_raised, notFin>>

\* lines 543-578: images are fetched into the directory of the uploads, made
\* and stored in the state if there is none; fetch_topic_images may raise,
\* which is logged
FinImages ==
    /\ fin_pc = "images"
    /\ IF fin_args.fetch /\ state_data.slide_images_temp_dir = None
       THEN /\ dirs' = dirs \cup {SlideImagesDir}
            /\ state_data' = [state_data EXCEPT !.slide_images_temp_dir = SlideImagesDir]
       ELSE UNCHANGED <<dirs, state_data>>
    /\ fin_pc' = "announce"
    /\ UNCHANGED <<fin_args, file_path, fin_raised, notFin>>

\* line 580: message.answer(t(lang, "generating")) is sent, or raises; the
\* call stands before the try block
FinAnnounce ==
    /\ fin_pc = "announce"
    /\ \E sent \in BOOLEAN : fin_pc' = IF sent THEN "try" ELSE "raised"
    /\ UNCHANGED <<fin_args, state_data, dirs, file_path, fin_raised, notFin>>

\* lines 584-635: the try block. It raises before the file is built (the
\* Wikipedia fetch, the content generation or the build fails), or after
\* (the history or the sending of the document fails), or runs through.
FinTry ==
    /\ fin_pc = "try"
    /\ \E outcome \in {"fails_before_build", "fails_after_build", "sent"} :
          /\ file_path' = IF outcome = "fails_before_build" THEN None ELSE OutputDir
          /\ dirs' = IF outcome = "fails_before_build" THEN dirs ELSE dirs \cup {OutputDir}
          /\ fin_pc' = IF outcome = "sent" THEN "finally" ELSE "except"
    /\ UNCHANGED <<fin_args, state_data, fin_raised, notFin>>

\* lines 636-641: the error is reported to the user, or message.answer raises
FinExcept ==
    /\ fin_pc = "except"
    /\ \E sent \in BOOLEAN : fin_raised' = ~sent
    /\ fin_pc' = "finally"
    /\ UNCHANGED <<fin_args, state_data, dirs, file_path, notFin>>

\* lines 642-646
FinFinally ==
    /\ fin_pc = "finally"
    /\ dirs' = CleanedUp(dirs) \ (IF file_path # None THEN {file_path} ELSE {})
    /\ state_data' = ClearedState
    /\ fin_pc' = IF fin_raised THEN "raised" ELSE "returned"
    /\ UNCHANGED <<fin_args, file_path, fin_raised, notFin>>

FinNext ==
    \/ FinNoUser
    \/ FinIncomplete
    \/ FinRead
    \/ FinImages
    \/ FinAnnounce
    \/ FinTry
    \/ FinExcept
    \/ FinFinally

\* ---------------------------------------------------- process_slide_images
\* Two image messages of one conversation arrive together (an album); the
\* dispatcher runs a handler for each as a task of its own. A handler gives
\* way to the other where it awaits the network: at the download and at the
\* answers. The state is kept in memory, so get_data and update_data do not
\* give way. Text messages and files of a wrong type or size are left out.
Uploads == {1, 2}
Suffixes == {"jpg", "png"}

FileOf(dir, n, suffix) == [dir |-> dir, n |-> n, suffix |-> suffix]
NoFile == FileOf(0, 0, "none")

\* line 1917
max_image_count == Max(2, slide_count * 2)

\* the files that the conversation's earlier uploads (upload 0) left
EarlierPaths(k) == [n \in 1..k |-> FileOf(1, n, "jpg")]

UpIdle ==
    /\ up_pc = [h \in Uploads |-> "idle"]
    /\ file_suffix = [h \in Uploads |-> "none"]
    /\ stored_paths = [h \in Uploads |-> <<>>]
    /\ destination = [h \in Uploads |-> NoFile]
    /\ slide_count = 0
    /\ slide_image_paths = <<>>
    /\ slide_images_temp_dir = 0
    /\ image_files = {}
    /\ acked = {}
    /\ finalized = FALSE

\* the conversation is in the slide_images state with k uploads stored
UpInit ==
    /\ up_pc = [h \in Uploads |-> "queued"]
    /\ file_suffix \in [Uploads -> Suffixes]
    /\ stored_paths = [h \in Uploads |-> <<>>]
    /\ destination = [h \in Uploads |-> NoFile]
    /\ slide_count \in 1..MaxSlideCount
    /\ \E k \in 0..(2 * MaxSlideCount) :
          /\ k <= max_image_count
          /\ slide_image_paths = EarlierPaths(k)
          /\ slide_images_temp_dir = IF k > 0 THEN 1 ELSE 0
          /\ image_files = {[path |-> EarlierPaths(k)[n], of |-> 0] : n \in 1..k}
    /\ acked = {}
    /\ finalized = FALSE

\* lines 1915-1925 once the state is cleared: slide_count reads as 0
UpExpired(h) ==
    /\ up_pc[h] = "queued"
    /\ finalized
    /\ up_pc' = [up_pc EXCEPT ![h] = "done"]
    /\ UNCHANGED <<file_suffix, stored_paths, destination, slide_count,
                   slide_image_paths, slide_images_temp_dir, image_files, acked, finalized, notUp>>

\* lines 1915-1967 with the list full: the limit is announced and the
\* presentation is generated
UpLimit(h) ==
    /\ up_pc[h] = "queued"
    /\ ~finalized
    /\ Len(slide_image_paths) >= max_image_count
    /\ stored_paths' = [stored_paths EXCEPT ![h] = slide_image_paths]
    /\ finalized' = TRUE
    /\ up_pc' = [up_pc EXCEPT ![h] = "done"]
    /\ UNCHANGED <<file_suffix, destination, slide_count, slide_image_paths,
                   slide_images_temp_dir, image_files, acked, notUp>>

\* mkdtemp: the directory made when the state names none
TempDirFor(stored_dir) == IF stored_dir # 0 THEN stored_dir ELSE 1

\* lines 1915-1979: the state is read, the directory is made if there is
\* none, the destination is named after the length of the list read, and the
\* download starts
UpBegin(h) ==
    /\ up_pc[h] = "queued"
    /\ ~finalized
    /\ Len(slide_image_paths) < max_image_count
    /\ stored_paths' = [stored_paths EXCEPT ![h] = slide_image_paths]
    /\ slide_images_temp_dir' = TempDirFor(slide_images_temp_dir)
    /\ destination' = [destination EXCEPT ![h] =
          FileOf(TempDirFor(slide_images_temp_dir), Len(slide_image_paths) + 1,
                 file_suffix[h])]
    /\ up_pc' = [up_pc EXCEPT ![h] = "download"]
    /\ UNCHANGED <<file_suffix, slide_count, slide_image_paths, image_files, acked,
                   finalized, notUp>>

\* what is on disk once upload h is written to path
Written(path, h) == {f \in image_files : f.path # path} \cup {[path |-> path, of |-> h]}

\* lines 1979-1999, the download done and the image large enough: the path
\* is appended to the local list and the list is stored in the state
UpStore(h) ==
    /\ up_pc[h] = "download"
    /\ image_files' = Written(destination[h], h)
    /\ stored_paths' = [stored_paths EXCEPT ![h] = Append(@, destination[h])]
    /\ slide_image_paths' = Append(stored_paths[h], destination[h])
    /\ up_pc' = [up_pc EXCEPT ![h] = "answer"]
    /\ UNCHANGED <<file_suffix, destination, slide_count, slide_images_temp_dir,
                   acked, finalized, notUp>>

\* lines 1979-1996, the download raises or the image is too small: the
\* destination is unlinked and the user is told
UpReject(h) ==
    /\ up_pc[h] = "download"
    /\ image_files' = {f \in image_files : f.path # destination[h]}
    /\ up_pc' = [up_pc EXCEPT ![h] = "done"]
    /\ UNCHANGED <<file_suffix, stored_paths, destination, slide_count, slide_image_paths,
                   slide_images_temp_dir, acked, finalized, notUp>>

\* lines 2000-2011: the upload is answered as saved; with the local list at
\* the limit the presentation is generated
UpAnswer(h) ==
    /\ up_pc[h] = "answer"
    /\ acked' = acked \cup {[of |-> h, path |-> destination[h]]}
    /\ finalized' = (finalized \/ Len(stored_paths[h]) >= max_image_count)
    /\ up_pc' = [up_pc EXCEPT ![h] = "done"]
    /\ UNCHANGED <<file_suffix, stored_paths, destination, slide_count, slide_image_paths,
                   slide_images_temp_dir, image_files, notUp>>

UpStep(h) ==
    \/ UpExpired(h)
    \/ UpLimit(h)
    \/ UpBegin(h)
    \/ UpStore(h)
    \/ UpReject(h)
    \/ UpAnswer(h)

UpNext == UpStep(1) \/ UpStep(2)

\* ------------------------------------------------------------ _expand_combo
\* Python's seq[:k] for k >= 0
\* (variant: the list is returned unsliced)
Unsliced(seq, k) == seq

SliceTo(seq, k) == SubSeq(seq, 1, IF k < Len(seq) THEN k ELSE Len(seq))

\* lines 227-229: the sequence is appended whole while the list is shorter
\* than slide_count
RECURSIVE ExtendWhileShorter(_, _, _)
ExtendWhileShorter(expanded, seq, k) ==
    IF Len(expanded) < k
    THEN ExtendWhileShorter(expanded \o seq, seq, k)
    ELSE expanded

\* _expand_combo (lines 224-230)
_expand_combo(seq, k) ==
    IF seq = <<>> THEN <<>>
    ELSE SliceTo(ExtendWhileShorter(<<>>, seq, k), k)

ComboIdle ==
    /\ combo_pc = "idle"
    /\ sequence = <<>>
    /\ combo_count = 0
    /\ expanded_types = <<>>

ComboInit ==
    /\ combo_pc = "drawn"
    /\ sequence \in SeqsUpTo(TemplateIds, MaxComboLen)
    /\ combo_count \in 0..MaxCount
    /\ expanded_types = <<>>

\* one call of the function
ExpandCombo ==
    /\ combo_pc = "drawn"
    /\ expanded_types' = _expand_combo(sequence, combo_count)
    /\ combo_pc' = "returned"
    /\ UNCHANGED <<sequence, combo_count, notCombo>>

\* process_template_combo_callback, action "sel" (lines 1656-1664): the
\* combo is expanded and stored unless slide_count is not positive
SelectCombo ==
    /\ combo_pc = "drawn"
    /\ IF combo_count <= 0
       THEN /\ combo_pc' = "refused"
            /\ UNCHANGED expanded_types
       ELSE /\ combo_pc' = "selected"
            /\ expanded_types' = _expand_combo(sequence, combo_count)
    /\ UNCHANGED <<sequence, combo_count, notCombo>>

ComboNext == ExpandCombo \/ SelectCombo

HandlersIdle == RateIdle /\ FinIdle /\ UpIdle /\ ComboIdle

\* ------------------------------------------------ _build_presentation_sync
\* lines 430-431: the two caches are locals of the call, so each build has
\* its own; CacheOf names the cache a build reads and writes
\* (variant: one module-level cache for all builds)
CacheOfShared(b) == 1

CacheOf(b) == b

\* line 439
DEFAULT_TEMPLATE == 1

\* (variant: the first id for every slide)
TemplateForAlwaysFirst(template_types, i) ==
    IF template_types # <<>> THEN template_types[1] ELSE DEFAULT_TEMPLATE

TemplateFor(template_types, i) ==
    IF i < Len(template_types) THEN template_types[i + 1]
    ELSE IF template_types # <<>> THEN template_types[1]
    ELSE DEFAULT_TEMPLATE

\* line 438: enumerate(slides)
\* (variant: the list walked from its end)
EnumerateBackwards(slides, i) == slides[Len(slides) - i]

Enumerate(slides, i) == slides[i + 1]

BuildIdle ==
    /\ pc = [b \in BuildIds |-> "idle"]
    /\ error = [b \in BuildIds |-> None]
    /\ inputs = [b \in BuildIds |-> NoInputs]
    /\ prepared_user_images = [b \in BuildIds |-> <<>>]
    /\ index = [b \in BuildIds |-> 0]
    /\ presentation = [b \in BuildIds |-> <<>>]
    /\ slide = [b \in BuildIds |-> NoSlide]
    /\ temp_images = [b \in BuildIds |-> <<>>]
    /\ pdf_pages_cache = [b \in BuildIds |-> EmptyDict]
    /\ zones_cache = [b \in BuildIds |-> EmptyDict]
    /\ output_path = [b \in BuildIds |-> None]
    /\ inserted = [b \in BuildIds |-> {}]
    /\ calls = [b \in BuildIds |-> <<>>]

WorldIdle ==
    /\ deckPages = [d \in PdfAssets |-> 0]
    /\ corrupt = {}
    /\ listing = "forward"
    /\ files = {}

\* lines 426-436: the call starts with the arguments inp
StartWith(b, inp) ==
    /\ pc[b] = "idle"
    /\ inputs' = [inputs EXCEPT ![b] = inp]
    /\ IF ParseHexColorError(inp.font_color) # None
       THEN /\ pc' = [pc EXCEPT ![b] = "failed"]
            /\ error' = [error EXCEPT ![b] = ParseHexColorError(inp.font_color)]
            /\ UNCHANGED <<prepared_user_images, temp_images, pdf_pages_cache, zones_cache>>
       ELSE /\ pc' = [pc EXCEPT ![b] = "loop"]
            /\ error' = error
            /\ temp_images' = [temp_images EXCEPT ![b] = <<>>]
            /\ pdf_pages_cache' = [pdf_pages_cache EXCEPT ![CacheOf(b)] = EmptyDict]
            /\ zones_cache' = [zones_cache EXCEPT ![CacheOf(b)] = EmptyDict]
            /\ prepared_user_images' =
                  [prepared_user_images EXCEPT ![b] = SelectSeq(inp.user_image_paths, Exists)]
    /\ UNCHANGED <<index, presentation, slide, output_path, inserted, calls>>
    /\ UNCHANGED <<notBuild, worldVars>>

\* the iteration's template and what it resolves to (lines 439-443)
CurTemplate(b) == TemplateFor(inputs[b].template_types, index[b])
CurPdf(b) == resolve_pdf_template_asset(CurTemplate(b))
CurStatic(b) == resolve_template_asset(CurTemplate(b))
PagesCache(b) == pdf_pages_cache[CacheOf(b)]
ZonesCache(b) == zones_cache[CacheOf(b)]
\* line 448: pdf_pages is None
\* (variant: without the cache lookup of line 447, every slide renders)
NeedsRenderUncached(b) == CurPdf(b) # NoPath

NeedsRender(b) == CurPdf(b) # NoPath /\ CurPdf(b) \notin DOMAIN PagesCache(b)
\* pdf_pages after lines 447-451, when the rasterizer does not raise
PdfPages(b) ==
    IF NeedsRender(b) THEN RenderedFiles(b, CurPdf(b).id) ELSE PagesCache(b)[CurPdf(b)]

\* a call of the rasterizer (line 449) or of the detector (line 480)
CallOf(op, key) == [op |-> op, key |-> key]
RenderCalls(b) == IF NeedsRender(b) THEN <<CallOf("render", CurPdf(b))>> ELSE <<>>

\* lines 449-451 when the rasterizer returns
RenderEffects(b) ==
    IF NeedsRender(b)
    THEN /\ pdf_pages_cache' = [pdf_pages_cache EXCEPT
                                   ![CacheOf(b)] = DictPut(@, CurPdf(b), PdfPages(b))]
         /\ temp_images' = [temp_images EXCEPT ![b] = @ \o PdfPages(b)]
         /\ files' = files \cup Range(PdfPages(b))
    ELSE UNCHANGED <<pdf_pages_cache, temp_images, files>>

Fail(b, exc) ==
    /\ pc' = [pc EXCEPT ![b] = "failed"]
    /\ error' = [error EXCEPT ![b] = exc]

\* line 449 raises: fitz is missing, the deck cannot be opened, or a page
\* fails to load, render or save after `written` files were created
RenderRaises(b) ==
    /\ NeedsRender(b)
    /\ \E written \in 0..Len(RenderedFiles(b, CurPdf(b).id)) :
          files' = files \cup {RenderedFiles(b, CurPdf(b).id)[j] : j \in 1..written}
    /\ Fail(b, "RenderError")
    /\ calls' = [calls EXCEPT ![b] = Append(@, CallOf("render", CurPdf(b)))]
    /\ UNCHANGED <<inputs, prepared_user_images, index, presentation, slide,
                   temp_images, pdf_pages_cache, zones_cache, output_path, inserted>>
    /\ UNCHANGED <<notBuild, registryVars>>

\* lines 452-454: what the page list makes the iteration raise, or None
\* (variant: without the check of line 452, line 454 divides by zero)
PageListErrorUnchecked(pdf_pages) ==
    IF pdf_pages = <<>> THEN "ZeroDivisionError" ELSE None

PageListError(pdf_pages) ==
    IF pdf_pages = <<>> THEN "EmptyTemplate" ELSE None

\* lines 447-453 on a deck of which no page is kept
EmptyTemplate(b) ==
    /\ CurPdf(b) # NoPath
    /\ PageListError(PdfPages(b)) # None
    /\ RenderEffects(b)
    /\ inserted' = [inserted EXCEPT ![b] =
                      IF NeedsRender(b) THEN @ \cup {CurPdf(b)} ELSE @]
    /\ calls' = [calls EXCEPT ![b] = @ \o RenderCalls(b)]
    /\ Fail(b, PageListError(PdfPages(b)))
    /\ UNCHANGED <<inputs, prepared_user_images, index, presentation, slide,
                   zones_cache, output_path>>
    /\ UNCHANGED <<notBuild, registryVars>>

\* line 454: the page of the deck that slide i is drawn on (0-based)
\* (variant: the last page is repeated once the deck is used up)
PageIndexClamped(i, page_count) == IF i < page_count THEN i ELSE page_count - 1

PageIndex(i, page_count) == i % page_count

\* the background of the iteration (lines 445-472): the raster drawn, or
\* the procedural theme of the slide's index
Background(b) ==
    IF CurPdf(b) # NoPath
    THEN PdfPages(b)[PageIndex(index[b], Len(PdfPages(b))) + 1]
    ELSE IF CurStatic(b) # NoPath THEN CurStatic(b)
    ELSE PathOf("theme", 0, index[b], 0)

ZoneKey(b) == IF Background(b).kind = "theme" THEN NoPath ELSE Background(b)

\* line 484
\* (variant: a title on every slide)
HasTitleAlways(i) == TRUE

HasTitle(i) == i = 0

\* _add_user_image (lines 229-253): the pictures the call adds to the slide;
\* it returns early when the file is missing, the rectangle is empty or
\* Image.open raises
\* (variant: without the try around Image.open, every existing file is placed)
AddUserImageUnchecked(disk, image_path, image_zone) ==
    IF ExistsOn(disk, image_path) /\ Width(image_zone) > 0 /\ Height(image_zone) > 0
    THEN <<[path |-> image_path, zone |-> image_zone]>>
    ELSE <<>>

_add_user_image(disk, image_path, image_zone) ==
    IF /\ ExistsOn(disk, image_path)
       /\ Width(image_zone) > 0 /\ Height(image_zone) > 0
       /\ OpensForPlacement(image_path)
    THEN <<[path |-> image_path, zone |-> image_zone]>>
    ELSE <<>>

\* lines 438-580 when nothing raises: one slide is composed
ComposeSlide(b) ==
    /\ CurPdf(b) # NoPath => PageListError(PdfPages(b)) = None
    /\ RenderEffects(b)
    /\ \E zone_key \in {ZoneKey(b)} :     \* line 461 / 469 / 472
       \* the disk once lines 447-451 have run
       \E disk \in {files \cup (IF NeedsRender(b) THEN Range(PdfPages(b)) ELSE {})} :
       LET needs_detect == zone_key # NoPath /\ zone_key \notin DOMAIN ZonesCache(b)
           has_title == HasTitle(index[b])
           pair == _select_slide_image_pair(prepared_user_images[b], index[b])
           use_fallback == pair[1] = NoPath /\ zone_key # NoPath /\ ExistsOn(disk, zone_key)
           first_image == IF use_fallback THEN zone_key ELSE pair[1]
           second_image == IF use_fallback THEN zone_key ELSE pair[2]
           with_images == first_image # NoPath /\ second_image # NoPath
       IN  \E opened \in IF needs_detect THEN Opens(zone_key) ELSE {TRUE} :
           \E layout \in IF with_images THEN _pick_image_layout(first_image) ELSE {None} :
              LET zones == IF zone_key = NoPath THEN <<TITLE_ZONE, BODY_ZONE>>
                           ELSE IF needs_detect
                           THEN _detect_text_zones_from_background(opened, titleScore, bodyScore)
                           ELSE ZonesCache(b)[zone_key]
                  body_zone == zones[2]
                  adjusted == _adjust_zones_for_dual_images(has_title, layout)
              IN  /\ zones_cache' =
                        IF needs_detect
                        THEN [zones_cache EXCEPT ![CacheOf(b)] = DictPut(@, zone_key, zones)]
                        ELSE zones_cache
                  /\ inserted' = [inserted EXCEPT ![b] =
                        @ \cup (IF NeedsRender(b) THEN {CurPdf(b)} ELSE {})
                          \cup (IF needs_detect THEN {zone_key} ELSE {})]
                  /\ calls' = [calls EXCEPT ![b] =
                        @ \o RenderCalls(b)
                          \o (IF needs_detect THEN <<CallOf("detect", zone_key)>> ELSE <<>>)]
                  /\ slide' = [slide EXCEPT ![b] =
                        [has_title |-> has_title,
                         zones |-> zones,
                         title_zone |-> IF has_title THEN FIRST_SLIDE_TITLE_ZONE ELSE NoZone,
                         body_zone |-> IF with_images THEN adjusted[1]
                                       ELSE IF has_title THEN body_zone
                                       ELSE BODY_ZONE_NO_TITLE,
                         first_image |-> first_image,
                         second_image |-> second_image,
                         layout |-> layout,
                         large_image_zone |-> IF with_images THEN adjusted[2] ELSE NoZone,
                         small_image_zone |-> IF with_images THEN adjusted[3] ELSE NoZone,
                         pictures |->
                            IF with_images
                            THEN _add_user_image(disk, first_image, adjusted[2])
                                    \o _add_user_image(disk, second_image, adjusted[3])
                            ELSE <<>>]]
    /\ presentation' = [presentation EXCEPT ![b] = Append(@,
           [kind |-> "content",
            content |-> Enumerate(inputs[b].slides, index[b]),
            template_type |-> CurTemplate(b),
            background |-> Background(b),
            names |-> <<>>])]
    /\ index' = [index EXCEPT ![b] = @ + 1]
    /\ UNCHANGED <<pc, error, inputs, prepared_user_images, output_path>>
    /\ UNCHANGED <<notBuild, registryVars>>

\* one iteration of the loop over the slides
SlideStep(b) ==
    /\ pc[b] = "loop"
    /\ index[b] < Len(inputs[b].slides)
    /\ \/ RenderRaises(b)
       \/ EmptyTemplate(b)
       \/ ComposeSlide(b)

\* line 582
CreditsRequested(creator_names) == creator_names # <<>>

\* line 602: at most 20 non-blank names
NAMES_CAP == 20

CreditNames(creator_names) ==
    LET named == SelectSeq(creator_names, LAMBDA part : part # 0)
    IN  SubSeq(named, 1, IF Len(named) < NAMES_CAP THEN Len(named) ELSE NAMES_CAP)

\* lines 582-609: the loop is over; the credits slide, if asked for
Credits(b) ==
    /\ pc[b] = "loop"
    /\ index[b] = Len(inputs[b].slides)
    /\ IF CreditsRequested(inputs[b].creator_names)
       THEN /\ presentation' = [presentation EXCEPT ![b] = Append(@,
                   [kind |-> "credits",
                    content |-> 0,
                    template_type |-> 0,
                    background |-> PathOf("theme", 0, Len(inputs[b].slides), 0),
                    names |-> CreditNames(inputs[b].creator_names)])]
            /\ slide' = [slide EXCEPT ![b] = [NoSlide EXCEPT !.body_zone = <<10, 34, 80, 36>>]]
       ELSE UNCHANGED <<presentation, slide>>
    /\ pc' = [pc EXCEPT ![b] = "save"]
    /\ UNCHANGED <<error, inputs, prepared_user_images, index, temp_images,
                   pdf_pages_cache, zones_cache, output_path, inserted, calls>>
    /\ UNCHANGED <<notBuild, worldVars>>

\* lines 611-620: the file is written and the temporary rasters unlinked
\* (every unlink is taken to succeed)
SaveDone(b) ==
    /\ pc[b] = "save"
    /\ output_path' = [output_path EXCEPT ![b] = "pptx"]
    /\ files' = files \ Range(temp_images[b])
    /\ pc' = [pc EXCEPT ![b] = "done"]
    /\ UNCHANGED <<error, inputs, prepared_user_images, index, presentation, slide,
                   temp_images, pdf_pages_cache, zones_cache, inserted, calls>>
    /\ UNCHANGED <<notBuild, registryVars>>

\* lines 611-614 raise (mkdtemp or presentation.save): nothing is unlinked
SaveRaises(b) ==
    /\ pc[b] = "save"
    /\ Fail(b, "SaveError")
    /\ UNCHANGED <<inputs, prepared_user_images, index, presentation, slide,
                   temp_images, pdf_pages_cache, zones_cache, output_path, inserted, calls>>
    /\ UNCHANGED <<notBuild, worldVars>>

\* The rasters of the modelled world score alike: the lowest title band
\* scores best and the body candidates tie.
WorldInit ==
    /\ deckPages \in [PdfAssets -> 0..MaxPages]
    /\ corrupt \in SUBSET CorruptibleAssets
    /\ listing = "forward"
    /\ files = {}
    /\ titleScore = [k \in 1..Len(TITLE_ZONE_CANDIDATES) |->
                        IF k = Len(TITLE_ZONE_CANDIDATES) THEN MaxScore ELSE 0]
    /\ bodyScore = [k \in 1..Len(BODY_ZONE_CANDIDATES) |-> 0]
    /\ detected = NoResult
    /\ decodeFailed = FALSE

Start(b) ==
    /\ pc[b] = "idle"
    /\ \E inp \in BuildInputs : StartWith(b, inp)

Init == WorldInit /\ BuildIdle /\ CropIdle /\ PairIdle /\ FontIdle /\ HandlersIdle

Next ==
    \/ Start(1)
    \/ SlideStep(1)
    \/ Credits(1)
    \/ SaveDone(1)
    \/ SaveRaises(1)

Spec == Init /\ [][Next]_vars


\* ---------------------------------------------------------- specifications
ZoneNext == Detect
ZoneSpecInit == ZoneInit /\ CropIdle /\ PairIdle /\ FontIdle /\ WorldIdle /\ BuildIdle /\ HandlersIdle
ZoneSpec == ZoneSpecInit /\ [][ZoneNext]_vars

CropNext == AddUserImage \/ AddBackgroundImageCover
CropSpecInit == CropInit /\ ZoneIdle /\ PairIdle /\ FontIdle /\ WorldIdle /\ BuildIdle /\ HandlersIdle
CropSpec == CropSpecInit /\ [][CropNext]_vars

PairNext == SelectPair
PairSpecInit == PairInit /\ ZoneIdle /\ CropIdle /\ FontIdle /\ WorldIdle /\ BuildIdle /\ HandlersIdle
PairSpec == PairSpecInit /\ [][PairNext]_vars

FontNext == EstimateBody \/ EstimateTitle
FontSpecInit == FontInit /\ ZoneIdle /\ CropIdle /\ PairIdle /\ WorldIdle /\ BuildIdle /\ HandlersIdle
FontSpec == FontSpecInit /\ [][FontNext]_vars

EngineIdle == ZoneIdle /\ CropIdle /\ PairIdle /\ FontIdle /\ WorldIdle /\ BuildIdle

RateSpecInit == RateInit /\ FinIdle /\ UpIdle /\ ComboIdle /\ EngineIdle
RateSpec == RateSpecInit /\ [][RateNext]_vars

FinSpecInit == FinInit /\ RateIdle /\ UpIdle /\ ComboIdle /\ EngineIdle
FinSpec == FinSpecInit /\ [][FinNext]_vars

UpSpecInit == UpInit /\ RateIdle /\ FinIdle /\ ComboIdle /\ EngineIdle
UpSpec == UpSpecInit /\ [][UpNext]_vars

ComboSpecInit == ComboInit /\ RateIdle /\ FinIdle /\ UpIdle /\ EngineIdle
ComboSpec == ComboSpecInit /\ [][ComboNext]_vars

\* Two builds run at once (asyncio.to_thread, lines 633-643), each on a
\* short call: one template that has an asset, one or two slides, no credits,
\* no user images.
ConcInputs ==
    [template_types : {<<t>> : t \in PdfAssets \cup ImageAssets},
     slides : {s \in SlideLists : Len(s) \in {1, 2}},
     font_color : {c \in Colors : ParseHexColorError(c) = None},
     creator_names : {<<>>},
     user_image_paths : {<<>>}]

ConcStart(b) ==
    /\ pc[b] = "idle"
    /\ \E inp \in ConcInputs : StartWith(b, inp)

ConcNext ==
    \E b \in BuildIds :
        \/ ConcStart(b)
        \/ SlideStep(b)
        \/ Credits(b)
        \/ SaveDone(b)
        \/ SaveRaises(b)

ConcSpec == Init /\ [][ConcNext]_vars

\* Builds that differ in the font color they are called with: well-formed
\* colors, with and without blanks around them, and strings that are not a
\* "#" and six hex digits in one way or another.
ColorChoices ==
    Colors \cup
    { <<" ", "#", "1", "A", "2", "b", "3", "C", " ">>,
      <<"1", "A", "2", "b", "3", "C">>,
      <<"#", "1", "2", "3", "4", "5", "G">>,
      <<"#", "1", "A", "2", "b", "3", "C", "0">>,
      <<"#", "#", "1", "A", "2", "b", "3", "C">>,
      <<"+", "1", "+", "2", "+", "3">>,
      <<"#", "1", " ", "2", " ", "3", "4">> }

ColorInputs ==
    {inp \in [template_types : {<<1>>, <<2>>, <<7>>},
              slides : SlideLists,
              font_color : ColorChoices,
              creator_names : {<<>>},
              user_image_paths : {<<>>}] : Len(inp.slides) <= 1}

ColorStart(b) ==
    /\ pc[b] = "idle"
    /\ \E inp \in ColorInputs : StartWith(b, inp)

ColorNext ==
    \/ ColorStart(1)
    \/ SlideStep(1)
    \/ Credits(1)
    \/ SaveDone(1)
    \/ SaveRaises(1)

ColorSpec == Init /\ [][ColorNext]_vars

\* Builds that ask for a credits slide: a few names with a blank entry
\* among them, or a long list of names.
CreditsChoices ==
    {<<1, 0, 2>>} \cup {[j \in 1..n |-> j] : n \in {MaxNames - 1, MaxNames}}

CreditsInputs ==
    {inp \in [template_types : SeqsUpTo(TemplateIds, 1),
              slides : SlideLists,
              font_color : Colors,
              creator_names : CreditsChoices,
              user_image_paths : {<<>>}] : ParseHexColorError(inp.font_color) = None}

CreditsStart(b) ==
    /\ pc[b] = "idle"
    /\ \E inp \in CreditsInputs : StartWith(b, inp)

CreditsNext ==
    \/ CreditsStart(1)
    \/ SlideStep(1)
    \/ Credits(1)
    \/ SaveDone(1)
    \/ SaveRaises(1)

CreditsSpec == Init /\ [][CreditsNext]_vars

\* The same call is made twice, the second once the first has ended, while
\* the file system is free to list the assets directory in another order.
DetInputs ==
    [template_types : {<<t>> : t \in PdfAssets \cup TwoFileAssets},
     slides : {s \in SlideLists : Len(s) \in {1, 2}},
     font_color : {c \in Colors : ParseHexColorError(c) = None},
     creator_names : {<<>>},
     user_image_paths : {<<>>, <<UserImage(1), UserImage(3)>>}]

DetStart(b) ==
    /\ pc[b] = "idle"
    /\ \A earlier \in 1..(b - 1) : pc[earlier] \in {"done", "failed"}
    /\ \E inp \in DetInputs :
          /\ \A earlier \in 1..(b - 1) : inp = inputs[earlier]
          /\ StartWith(b, inp)

\* iterdir() yields the directory's entries in another order
Relist ==
    /\ listing' \in Listings \ {listing}
    /\ UNCHANGED <<deckPages, corrupt, files, buildVars, notBuild>>

DetStep(b) ==
    \/ DetStart(b)
    \/ SlideStep(b)
    \/ Credits(b)
    \/ SaveDone(b)
    \/ SaveRaises(b)

DetNext ==
    \/ Relist
    \/ DetStep(1)
    \/ DetStep(2)

DetSpec == Init /\ [][DetNext]_vars

\* ------------------------------------------------------------------ claims
InUnitSquare(z) ==
    /\ Left(z) >= 0
    /\ Top(z) >= 0
    /\ Left(z) + Width(z) <= 100
    /\ Top(z) + Height(z) <= 100

\* C2: whatever the scores of the candidate rectangles, the pair returned by
\* _detect_text_zones_from_background has the title's bottom edge at most
\* 0.01 below the body's top edge: title.top + title.height <= body.top + 0.01.
C2_TitleAboveBody ==
    detected # NoResult =>
        Top(detected[1]) + Height(detected[1]) <= Top(detected[2]) + ZONE_EPS

\* the raster was scored, the lowest title candidate won, and the body
\* candidate with the best score overall starts too high and was filtered out
C2_Witness ==
    /\ detected # NoResult
    /\ ~decodeFailed
    /\ detected[1] = TITLE_ZONE_CANDIDATES[5]
    /\ bodyScore[1] > bodyScore[3]
    /\ detected[2] = BODY_ZONE_CANDIDATES[3]

\* C3: both boxes of every returned pair, the default pair of the except
\* branch included, lie inside the unit square.
C3_ZonesInsideSlide ==
    detected # NoResult => InUnitSquare(detected[1]) /\ InUnitSquare(detected[2])

\* the raster could not be decoded and the default pair came back
C3_Witness ==
    /\ detected # NoResult
    /\ decodeFailed
    /\ detected = <<TITLE_ZONE, BODY_ZONE>>

SameRatio(a, b) == a[1] * b[2] = b[1] * a[2]

CropInRange(c) == c[1] >= 0 /\ c[2] > 0 /\ 100 * c[1] <= CROP_CAP * c[2]

\* C7: for a placed image with positive source and target sides, the crop of
\* each side lies in [0, 0.49], and all four crops are 0 when the source and
\* the target have the same aspect ratio.
C7_CropBounded ==
    picture # NoResult =>
        /\ \A side \in {"left", "right", "top", "bottom"} : CropInRange(picture.crop[side])
        /\ SameRatio(imgSize, boxSize) =>
               \A side \in {"left", "right", "top", "bottom"} : picture.crop[side][1] = 0

\* a user image so much wider than its box that the 0.49 cap applies
C7_Witness ==
    /\ picture # NoResult
    /\ picture.kind = "user"
    /\ picture.crop.left = <<CROP_CAP, 100>>
    /\ picture.crop.top[1] = 0

\* C1: a build of n slides puts the n content slides into the output in the
\* order of the input list, and the finished output has n + 1 slides when
\* creator names were given and n otherwise.
C1_OrderAndCount ==
    \A b \in BuildIds :
        LET n == Len(inputs[b].slides)
            out == presentation[b]
        IN  /\ \A i \in 1..Len(out) :
                  i <= n => /\ out[i].kind = "content"
                            /\ out[i].content = inputs[b].slides[i]
            /\ pc[b] = "done" =>
                  /\ Len(out) = n + (IF inputs[b].creator_names # <<>> THEN 1 ELSE 0)
                  /\ Len(out) = n + 1 => out[n + 1].kind = "credits"

\* a finished build of three slides with a credits slide after them
C1_Witness ==
    /\ pc[1] = "done"
    /\ Len(inputs[1].slides) = 3
    /\ inputs[1].creator_names # <<>>
    /\ Len(presentation[1]) = 4
    /\ presentation[1][4].kind = "credits"

\* C4: when a build has ended, normally or with an error, none of the
\* temporary rasters it created exists any more.
C4_TempFilesGone ==
    \A b \in BuildIds :
        pc[b] \in {"done", "failed"} => ~ \E f \in files : f.owner = b

\* C5: with several builds running at once, the page cache and the zone
\* cache of a build hold only entries that build inserted, and the cached
\* pages are rasters that build rendered.
C5_CachesPerBuild ==
    \A b \in BuildIds :
        /\ DOMAIN pdf_pages_cache[b] \subseteq inserted[b]
        /\ DOMAIN zones_cache[b] \subseteq inserted[b]
        /\ \A key \in DOMAIN pdf_pages_cache[b] :
              \A f \in Range(pdf_pages_cache[b][key]) : f.owner = b

\* both builds are in their loops, each with its own rasters of the same
\* deck cached under the same key
C5_Witness ==
    /\ pc[1] = "loop"
    /\ pc[2] = "loop"
    /\ DeckPath(1) \in DOMAIN pdf_pages_cache[1]
    /\ DeckPath(1) \in DOMAIN pdf_pages_cache[2]
    /\ pdf_pages_cache[1][DeckPath(1)] # <<>>
    /\ pdf_pages_cache[1][DeckPath(1)] # pdf_pages_cache[2][DeckPath(1)]
    /\ zones_cache[1] # EmptyDict
    /\ zones_cache[2] # EmptyDict

\* C6: for a pool of N images and a slide index i, the pair is
\* (pool[2i mod N], pool[(2i+1) mod N]) when N >= 2, the one image twice
\* when N = 1, and no image for either slot when N = 0.
C6_PairSelection ==
    selected # NoResult =>
        LET n == Len(selPool)
        IN  /\ n >= 2 => selected = <<selPool[((2 * selIndex) % n) + 1],
                                      selPool[((2 * selIndex + 1) % n) + 1]>>
            /\ n = 1 => selected = <<selPool[1], selPool[1]>>
            /\ n = 0 => selected = <<NoPath, NoPath>>

\* a pool of three images of which the second slot wraps to the first image
C6_Witness ==
    /\ selected # NoResult
    /\ Len(selPool) = 3
    /\ 2 * selIndex >= 3
    /\ selected[1] = selPool[3]
    /\ selected[2] = selPool[1]
    /\ selPool[1] # selPool[3]

\* C8: rasterizing a deck of p pages gives, in page order, the pages
\* 1..p-1 when p > 1 and the single page 0 when p = 1.
C8_PagesRasterized ==
    \A b \in BuildIds :
        \A key \in DOMAIN pdf_pages_cache[b] :
            LET p == deckPages[key.id]
                rasters == pdf_pages_cache[b][key]
            IN  /\ p > 1 => /\ Len(rasters) = p - 1
                            /\ \A j \in 1..Len(rasters) : rasters[j].page = j
                /\ p = 1 => /\ Len(rasters) = 1
                            /\ rasters[1].page = 0

\* a deck of three pages was rasterized into the two rasters of pages 1, 2
C8_Witness ==
    /\ deckPages[1] = 3
    /\ DeckPath(1) \in DOMAIN pdf_pages_cache[1]
    /\ Len(pdf_pages_cache[1][DeckPath(1)]) = 2
    /\ pdf_pages_cache[1][DeckPath(1)][1].page = 1
    /\ pdf_pages_cache[1][DeckPath(1)][2].page = 2

\* C9: a build that resolved a slide's background to a deck of which no page
\* is kept has aborted with the empty-template error and has no output file.
C9_EmptyDeckAborts ==
    \A b \in BuildIds :
        (\E key \in DOMAIN pdf_pages_cache[b] : pdf_pages_cache[b][key] = <<>>) =>
            /\ pc[b] = "failed"
            /\ error[b] = "EmptyTemplate"
            /\ output_path[b] = None

\* the empty deck was met on a later slide, after a slide was composed
C9_Witness ==
    /\ pc[1] = "failed"
    /\ error[1] = "EmptyTemplate"
    /\ index[1] > 0
    /\ Len(presentation[1]) = index[1]
    /\ pdf_pages_cache[1][DeckPath(1)] = <<>>

\* C10: slide i uses template_ids[i] when the list reaches that far and
\* template_ids[0] otherwise, and a build never fails because the list is
\* shorter than the slide list: the only errors are an invalid color, a deck
\* that fails to rasterize or is empty (met on a slide whose template has a
\* deck) and a failed save.
C10_TemplateFallback ==
    \A b \in BuildIds :
        LET tt == inputs[b].template_types
            out == presentation[b]
        IN  /\ \A i \in 1..Len(out) :
                  (out[i].kind = "content" /\ tt # <<>>) =>
                      out[i].template_type = IF i <= Len(tt) THEN tt[i] ELSE tt[1]
            /\ pc[b] = "failed" =>
                  /\ error[b] \in {"ValueError", "RenderError", "EmptyTemplate", "SaveError"}
                  /\ error[b] \in {"RenderError", "EmptyTemplate"} =>
                        /\ index[b] < Len(inputs[b].slides)
                        /\ TemplateFor(tt, index[b]) \in PdfAssets
                  /\ error[b] = "ValueError" => presentation[b] = <<>>
                  /\ error[b] = "SaveError" => index[b] = Len(inputs[b].slides)

\* template ids [7], id 7 not in the registry, three slides: the build
\* finished with exactly three slides, all on template 7
C10_Witness ==
    /\ pc[1] = "done"
    /\ inputs[1].template_types = <<7>>
    /\ 7 \notin PdfAssets \cup ImageAssets
    /\ Len(inputs[1].slides) = 3
    /\ inputs[1].creator_names = <<>>
    /\ Len(presentation[1]) = 3
    /\ \A i \in 1..3 : presentation[1][i].template_type = 7

\* whether bg is the background that template id t resolves to: a raster of
\* t's deck, else t's image asset, else the procedural theme
IsBackgroundOf(bg, t) ==
    IF resolve_pdf_template_asset(t) # NoPath
    THEN bg.kind = "tmp" /\ bg.id = t
    ELSE IF resolve_template_asset(t) # NoPath
    THEN bg = resolve_template_asset(t)
    ELSE bg.kind = "theme"

\* C11: a slide whose template id has neither a deck nor an image asset in
\* the registry gets the background that the first template id of the list
\* resolves to.
C11_AbsentTemplateUsesFirst ==
    \A b \in BuildIds :
        LET tt == inputs[b].template_types
            out == presentation[b]
        IN  \A i \in 1..Len(out) :
                (/\ out[i].kind = "content"
                 /\ resolve_pdf_template_asset(out[i].template_type) = NoPath
                 /\ resolve_template_asset(out[i].template_type) = NoPath)
                    => IsBackgroundOf(out[i].background, tt[1])

\* the claim's reading of a well-formed color: trimmed, and one leading "#"
\* removed if there is one, it is exactly six hex digits
SixHexDigits(color_hex) ==
    LET trimmed == RStrip(LStrip(color_hex, {" "}), {" "})
        value == IF trimmed # <<>> /\ trimmed[1] = "#" THEN Tail(trimmed) ELSE trimmed
    IN  Len(value) = 6 /\ \A j \in 1..6 : value[j] \in HexDigits

\* C12: a build called with a font color that is not six hex digits (after
\* trimming and dropping a leading "#") has failed with the invalid-color
\* error, without rasterizing a page, composing a slide or writing an output.
C12_MalformedColorFailsFast ==
    \A b \in BuildIds :
        (pc[b] # "idle" /\ ~SixHexDigits(inputs[b].font_color)) =>
            /\ pc[b] = "failed"
            /\ error[b] = "ValueError"
            /\ presentation[b] = <<>>
            /\ temp_images[b] = <<>>
            /\ output_path[b] = None

\* the slide added last is a content slide
LastIsContent(b) ==
    presentation[b] # <<>> /\ presentation[b][Len(presentation[b])].kind = "content"

\* a user image that is missing or that cannot be decoded
BadUserImage(path) ==
    path.kind = "user" /\ (path.id = 0 \/ path.id % 2 = 0)

C14_DefaultOnDecodeFailure ==
    decodeFailed =>
        /\ detected # NoResult
        /\ detected[1] = TITLE_ZONE
        /\ detected[2] = BODY_ZONE

\* the call failed to decode a raster whose scores, had it been decoded,
\* would have selected another pair
C14_Witness ==
    /\ decodeFailed
    /\ detected = <<TITLE_ZONE, BODY_ZONE>>
    /\ DetectFromScores(titleScore, bodyScore)[1] # TITLE_ZONE
    /\ DetectFromScores(titleScore, bodyScore)[2] # BODY_ZONE

\* C15: of two slide contents, the one with at least as many bullets, at
\* least as long a longest bullet and at least as long a total never gets
\* the larger body font; of two titles, the one whose trimmed length is at
\* least as long never gets the larger title font.
C15_FontSizeMonotonic ==
    font_sizes # NoResult =>
        /\ (/\ fontCase = "body"
            /\ Len(bullets) <= Len(moreBullets)
            /\ SeqMax(bullets) <= SeqMax(moreBullets)
            /\ SeqSum(bullets) <= SeqSum(moreBullets)) => font_sizes[2] <= font_sizes[1]
        /\ (/\ fontCase = "title"
            /\ StrippedLen(titleText) <= StrippedLen(longerTitleText))
                => font_sizes[2] <= font_sizes[1]

\* four bullets of 170 characters get 18, four of 171 characters (the total
\* passes 680) get 16
C15_Witness ==
    /\ fontCase = "body"
    /\ bullets = <<170, 170, 170, 170>>
    /\ moreBullets = <<171, 171, 171, 171>>
    /\ font_sizes = <<18, 16>>

\* C16: the slide at index 0 has one title box and every later content
\* slide has none; every content slide has one body box; the title box of
\* the first slide is FIRST_SLIDE_TITLE_ZONE, whose top is strictly above
\* the top of every title zone the detector can return.
C16_TitleOnFirstSlideOnly ==
    /\ \A b \in BuildIds :
          LastIsContent(b) =>
              LET s == slide[b]
                  i == Len(presentation[b]) - 1
              IN  /\ i = 0 => s.title_zone = FIRST_SLIDE_TITLE_ZONE
                  /\ i >= 1 => s.title_zone = NoZone
                  /\ s.body_zone # NoZone
    /\ \A k \in 1..Len(TITLE_ZONE_CANDIDATES) :
          Top(FIRST_SLIDE_TITLE_ZONE) < Top(TITLE_ZONE_CANDIDATES[k])
    /\ Top(FIRST_SLIDE_TITLE_ZONE) < Top(DetectDefault[1])

\* the second slide of a build has just been composed: a body box, no title
C16_Witness ==
    /\ pc[1] = "loop"
    /\ index[1] = 2
    /\ Len(presentation[1]) = 2
    /\ presentation[1][2].kind = "content"
    /\ slide[1].title_zone = NoZone
    /\ slide[1].body_zone # NoZone
    /\ ~slide[1].has_title

\* C17: when creator names were given, the loop is followed by exactly one
\* credits slide, after the last content slide, on the procedural theme of
\* index = number of content slides, listing every name that was given, in
\* the order given, and carrying no picture.
C17_CreditsSlide ==
    \A b \in BuildIds :
        (pc[b] \in {"save", "done"} /\ inputs[b].creator_names # <<>>) =>
            LET n == Len(inputs[b].slides)
                out == presentation[b]
            IN  /\ Len(out) = n + 1
                /\ \A i \in 1..n : out[i].kind = "content"
                /\ out[n + 1].kind = "credits"
                /\ out[n + 1].background = PathOf("theme", 0, n, 0)
                /\ out[n + 1].names =
                       SelectSeq(inputs[b].creator_names, LAMBDA part : part # 0)
                /\ slide[b].pictures = <<>>

\* C18: in a build without user images, every content slide has its body
\* box on the body zone of lines 474-482 (the detected zone for a raster
\* background, BODY_ZONE for the procedural theme), and has no picture.
C18_NoImagesKeepsZones ==
    \A b \in BuildIds :
        (LastIsContent(b) /\ inputs[b].user_image_paths = <<>>) =>
            /\ slide[b].body_zone = slide[b].zones[2]
            /\ slide[b].pictures = <<>>

\* rectangle a lies inside rectangle z
Inside(a, z) ==
    /\ Left(a) >= Left(z)
    /\ Top(a) >= Top(z)
    /\ Left(a) + Width(a) <= Left(z) + Width(z)
    /\ Top(a) + Height(a) <= Top(z) + Height(z)

\* C19: for the layouts "left" and "right", with or without a title, the
\* small image zone lies inside the text zone returned with it, and the
\* large image zone is 40% to 45% of the slide wide.
C19_SmallImageInTextColumn ==
    \A b \in BuildIds :
        (LastIsContent(b) /\ slide[b].layout \in {"left", "right"}) =>
            /\ Inside(slide[b].small_image_zone, slide[b].body_zone)
            /\ Width(slide[b].large_image_zone) >= 40
            /\ Width(slide[b].large_image_zone) <= 45

\* C20: on a slide that has a title box and a body box, whatever the
\* background and the layout, the title box ends at most 0.01 below the top
\* of the body box: title.top + title.height <= body.top + 0.01.
C20_TitleBodyNoOverlap ==
    \A b \in BuildIds :
        (LastIsContent(b) /\ slide[b].title_zone # NoZone /\ slide[b].body_zone # NoZone) =>
            Top(slide[b].title_zone) + Height(slide[b].title_zone)
                <= Top(slide[b].body_zone) + ZONE_EPS

\* the first slide on a raster background with the layout "bottom", the one
\* whose text zone starts highest: the title ends at 0.15, the body starts
\* at 0.14
C20_Witness ==
    /\ LastIsContent(1)
    /\ slide[1].has_title
    /\ slide[1].title_zone = FIRST_SLIDE_TITLE_ZONE
    /\ slide[1].layout = "bottom"
    /\ presentation[1][1].background.kind \in {"tmp", "image"}
    /\ Top(slide[1].body_zone) = 14
    /\ Top(slide[1].title_zone) + Height(slide[1].title_zone) = 15

\* ---- C21
\* a path with the build that owns it left out (temporary rasters are named
\* per build)
Anon(path) == [path EXCEPT !.owner = 0]

\* the plan of the slides a build has composed: the slides' summaries and
\* the layout of the slide added last
PlanOf(b) ==
    [slides |-> [i \in 1..Len(presentation[b]) |->
                    [presentation[b][i] EXCEPT !.background = Anon(@)]],
     last |-> [slide[b] EXCEPT
                  !.first_image = Anon(@),
                  !.second_image = Anon(@),
                  !.pictures = [k \in 1..Len(@) |-> [@[k] EXCEPT !.path = Anon(@)]]]]

\* C21: two builds given the same arguments on the same registry that have
\* composed the same number of slides, the last with the same orientation
\* drawn, have laid out the same slides.
C21_OnlyOrientationIsDrawn ==
    (/\ pc[1] # "idle" /\ pc[2] # "idle"
     /\ inputs[1] = inputs[2]
     /\ Len(presentation[1]) = Len(presentation[2])
     /\ slide[1].layout = slide[2].layout)
    => PlanOf(1) = PlanOf(2)

\* ---- C22
\* C22: within one build each deck is rasterized at most once and zones are
\* detected at most once for each raster background; every slide drawn from a
\* deck takes its page from the cached list, and the zones of the slide added
\* last are the cached ones of its background.
C22_RenderAndDetectOnce ==
    \A b \in BuildIds :
       /\ \A i, j \in 1..Len(calls[b]) : calls[b][i] = calls[b][j] => i = j
       /\ \A i \in 1..Len(presentation[b]) :
             LET deck == resolve_pdf_template_asset(presentation[b][i].template_type)
             IN  (presentation[b][i].kind = "content" /\ deck # NoPath)
                 => /\ deck \in DOMAIN pdf_pages_cache[b]
                    /\ presentation[b][i].background \in Range(pdf_pages_cache[b][deck])
                    /\ presentation[b][i].background \in DOMAIN zones_cache[b]
       /\ (/\ presentation[b] # <<>>
           /\ presentation[b][Len(presentation[b])].kind = "content"
           /\ presentation[b][Len(presentation[b])].background.kind # "theme")
          => slide[b].zones =
                zones_cache[b][presentation[b][Len(presentation[b])].background]

\* three slides were drawn from a deck of two kept pages: one render, two
\* detections, and the third slide reused both caches
C22_Witness ==
    /\ pc[1] = "done"
    /\ Len(presentation[1]) = 3
    /\ \A i \in 1..3 : presentation[1][i].template_type \in PdfAssets
    /\ Len(pdf_pages_cache[1][DeckPath(1)]) = 2
    /\ calls[1] = <<CallOf("render", DeckPath(1)),
                    CallOf("detect", TmpFile(1, 1, 1)),
                    CallOf("detect", TmpFile(1, 1, 2))>>

\* ---- C23
\* C23: the i-th slide (0-based) that is drawn from a deck has the deck's
\* page i mod n as its background, n being the number of the deck's pages.
C23_PagesCycle ==
    \A b \in BuildIds : \A k \in 1..Len(presentation[b]) :
       LET deck == resolve_pdf_template_asset(presentation[b][k].template_type)
       IN  (presentation[b][k].kind = "content" /\ deck # NoPath)
           => LET pages == pdf_pages_cache[b][deck]
              IN  presentation[b][k].background = pages[((k - 1) % Len(pages)) + 1]

\* a two-page deck under three slides: the third slide is back on the
\* deck's first page
C23_Witness ==
    /\ Len(presentation[1]) = 3
    /\ DeckPath(1) \in DOMAIN pdf_pages_cache[1]
    /\ Len(pdf_pages_cache[1][DeckPath(1)]) = 2
    /\ presentation[1][3].template_type = 1
    /\ presentation[1][3].background = pdf_pages_cache[1][DeckPath(1)][1]
    /\ presentation[1][2].background = pdf_pages_cache[1][DeckPath(1)][2]

\* ---- C24
\* the body candidates that start at or below the bottom edge of the title
\* box less the slack
Qualifying(title) ==
    {k \in 1..Len(BODY_ZONE_CANDIDATES) :
        Top(BODY_ZONE_CANDIDATES[k]) >= Top(title) + Height(title) - ZONE_EPS}

\* the body scores with the score of candidate k changed
OtherBodyScores(k) == [bodyScore EXCEPT ![k] = (@ + 1) % (MaxScore + 1)]

\* C24: on a raster that decodes, the title returned is a title candidate of
\* maximal score, the body returned is of maximal score among the qualifying
\* body candidates (among all of them when none qualifies), and the title
\* stays the same when a body score changes.
C24_MaximalScores ==
    (detected # NoResult /\ ~decodeFailed)
    => \E ti \in 1..Len(TITLE_ZONE_CANDIDATES), bi \in 1..Len(BODY_ZONE_CANDIDATES) :
          /\ detected = <<TITLE_ZONE_CANDIDATES[ti], BODY_ZONE_CANDIDATES[bi]>>
          /\ \A j \in 1..Len(TITLE_ZONE_CANDIDATES) : titleScore[j] <= titleScore[ti]
          /\ LET among == IF Qualifying(detected[1]) = {}
                          THEN 1..Len(BODY_ZONE_CANDIDATES)
                          ELSE Qualifying(detected[1])
             IN  /\ bi \in among
                 /\ \A k \in among : bodyScore[k] <= bodyScore[bi]
          /\ \A k \in 1..Len(BODY_ZONE_CANDIDATES) :
                DetectFromScores(titleScore, OtherBodyScores(k))[1] = detected[1]

\* two title candidates tie for the best score and the first is returned;
\* the best body score is held by a candidate that qualifies and by one that
\* does not
C24_Witness ==
    /\ ~decodeFailed
    /\ titleScore = <<0, 0, 0, MaxScore, MaxScore>>
    /\ bodyScore = <<MaxScore, 0, 0, 0, MaxScore, 0>>
    /\ detected = <<TITLE_ZONE_CANDIDATES[4], BODY_ZONE_CANDIDATES[5]>>
    /\ Qualifying(detected[1]) # 1..Len(BODY_ZONE_CANDIDATES)

\* ---- C25
\* the boxes a and z share a point of positive area
Intersects(a, z) ==
    /\ Left(a) < Left(z) + Width(z)
    /\ Left(z) < Left(a) + Width(a)
    /\ Top(a) < Top(z) + Height(z)
    /\ Top(z) < Top(a) + Height(a)

\* C25: on a slide with two images, whatever the orientation and with or
\* without a title, the large image zone intersects neither the re-carved
\* body box nor the title box.
C25_LargeImageClearOfText ==
    \A b \in BuildIds :
       slide[b].large_image_zone # NoZone
       => /\ ~Intersects(slide[b].large_image_zone, slide[b].body_zone)
          /\ slide[b].has_title
                => ~Intersects(slide[b].large_image_zone, slide[b].title_zone)

\* ---- C26
\* the times at which events of user u were passed on to the handler
Passed(u) == SelectSeq(seen[u], LAMBDA e : e.allowed)

\* C26: for every user but the administrator and every instant t, at most
\* max_messages of the user's events that were passed on to the handler bear
\* a time in [t - window_sec, t].
C26_WindowAllowance ==
    \A u \in UserIds \ {ADMIN_ID} : \A t \in 0..MaxTime :
       Cardinality({k \in 1..Len(Passed(u)) :
                       /\ Passed(u)[k].at >= t - window_sec
                       /\ Passed(u)[k].at <= t}) <= max_messages

\* a user has used up the allowance, was rejected, and got an event through
\* again exactly window_sec after another that went through
C26_Witness ==
    \E u \in UserIds \ {ADMIN_ID} :
       /\ Len(Passed(u)) = max_messages + 1
       /\ Passed(u)[Len(Passed(u))].at = Passed(u)[max_messages].at + window_sec + 1
       /\ \E k \in 1..Len(seen[u]) : ~seen[u][k].allowed

\* ---- C27
\* C27: an event that is rejected leaves no hit of its own in the user's
\* queue (the queue is what was there before, less the expired hits), and an
\* event that arrives more than window_sec after the oldest hit recorded for
\* its user is let through.
C27_RejectionsDoNotExtend ==
    \A u \in UserIds \ {ADMIN_ID} :
       last.user = u
       => /\ ~last.allowed =>
                /\ Len(_hits[u]) <= Len(last.before)
                /\ \A k \in 1..Len(_hits[u]) :
                      _hits[u][k] = last.before[k + Len(last.before) - Len(_hits[u])]
          /\ (last.before # <<>> /\ last.at > last.before[1] + window_sec)
                => last.allowed

\* a user whose queue was full, and who had been rejected, is let through by
\* the event that comes more than window_sec after the oldest hit
C27_Witness ==
    \E u \in UserIds \ {ADMIN_ID} :
       /\ last.user = u
       /\ last.allowed
       /\ Len(last.before) = max_messages
       /\ last.at = last.before[1] + window_sec + 1
       /\ Len(seen[u]) >= 2
       /\ ~seen[u][Len(seen[u]) - 1].allowed

\* ---- C28
\* C28: an invocation of _finalize_presentation_generation that has ended,
\* by returning or by raising, has left the conversation state cleared and
\* neither the directory of the slide images nor that of the output on disk.
C28_FinalizeCleansUp ==
    fin_pc \in {"returned", "raised"}
    => /\ state_data.cleared
       /\ SlideImagesDir \notin dirs
       /\ OutputDir \notin dirs

\* ---- C29
\* C29: while the conversation collects images, every upload answered as
\* saved has its path in slide_image_paths and its own bytes in the file of
\* that path, no two uploads answered as saved share a path, and the list
\* has at most max(2, 2 * slide_count) entries.
C29_NoAcknowledgedUploadLost ==
    /\ Len(slide_image_paths) <= max_image_count
    /\ ~finalized
       => /\ \A a \in acked :
                /\ \E n \in 1..Len(slide_image_paths) : slide_image_paths[n] = a.path
                /\ [path |-> a.path, of |-> a.of] \in image_files
          /\ \A a, c \in acked : a.of # c.of => a.path # c.path

\* ---- C30
\* C30: for a non-empty sequence s and a slide count k >= 0 the list
\* returned has exactly k elements, the i-th (0-based) being s[i mod len(s)],
\* so the list the callback stores is as long as the slide count; for the
\* empty sequence the list returned is empty.
C30_ExpandCombo ==
    combo_pc \in {"returned", "selected"}
    => IF sequence = <<>>
       THEN expanded_types = <<>>
       ELSE /\ Len(expanded_types) = combo_count
            /\ \A i \in 0..(combo_count - 1) :
                  expanded_types[i + 1] = sequence[(i % Len(sequence)) + 1]

\* a combo of two different ids expanded to three slides by the callback
C30_Witness ==
    /\ combo_pc = "selected"
    /\ sequence = <<2, 7>>
    /\ combo_count = 3
    /\ expanded_types = <<2, 7, 2>>

====
